---- MODULE Spec2Model ----
(***************************************************************************)
(* rusty_stocks: the orchestrator run() of src/lib.rs and the functions of *)
(* src/calculations.rs and src/stock.rs it calls.                          *)
(*                                                                         *)
(* Abstractions, all stated where they are made:                           *)
(*  - a Stock keeps date, close and tomorrow; the other features only feed *)
(*    the external random-forest classifier, whose answers are drawn here; *)
(*  - floats are exact rationals <<numerator, denominator>> or integers;   *)
(*  - thread_rng (the shuffle, the normal draws) is a choice with \E;      *)
(*  - a Rust panic (unwrap on Err, slice or index out of range, usize      *)
(*    underflow) ends the process: pc = "panic", no action enabled.        *)
(* Vectors are 1-based here and 0-based in the source.                     *)
(***************************************************************************)
EXTENDS Integers, Sequences, FiniteSets

\* ------------------------------------------------------------------ bounds
MaxFiles == 2          \* files on the command line
MaxRecords == 3        \* data lines of one file (0..MaxRecords)
MaxSplit == 4          \* records given to split_data on its own
MaxDen == 4            \* denominators of the fractions given to split_data
MaxSimRecords == 2     \* records given to calculate_price_paths on its own
MaxTests == 3          \* test-set sizes of the scoring loop on its own
Days == 3              \* stands for days = 30 (calculations.rs:140)
Trials == 2            \* stands for trials = 50000 (calculations.rs:141)
Factors == {1, 2}      \* values of exp(drift + std * z): always positive
Prices == {0, 1}       \* close prices: equal, rising and falling pairs

\* ------------------------------------------------------- program constants
NumRuns == 10          \* for _ in 0..10
TrainNum == 9          \* split_data(&dataset, 0.9): 0.9 = TrainNum / TrainDen
TrainDen == 10
ReportScale == 10      \* avg_acc * 10.0

VARIABLES
    pc,             \* position in run(), or in the function applied on its own
    nfiles,         \* config.files.len()
    fileIdx,        \* files taken from config.files so far
    status,         \* per file: what has been printed for it
    stock_vec,      \* run: stock_vec; on its own: the stocks argument
    training,       \* split_data: the fraction, <<numerator, denominator>>
    indices,        \* split_data: indices after the shuffle
    training_set,   \* split_data: training_set
    test_set,       \* split_data / run_forest: test_set
    table,          \* run_forest: the targets of the rows of the training table
    daily_returns,  \* calculate_price_paths: daily_returns
    price_paths,    \* calculate_price_paths: price_paths
    predicted,      \* run: predicted, <<sum of the final row, its length>>
    run,            \* run: iterations of for _ in 0..10 completed
    num_inc,        \* run: num_inc
    num_dec,        \* run: num_dec
    avg_acc,        \* run: avg_acc, a rational
    num_tests,      \* run_forest: num_tests
    num_correct,    \* run_forest: num_correct
    raw_result,     \* run_forest: classifier.predict(ultimo) before the switch
    result,         \* run_forest: result as returned
    accuracy,       \* run_forest: accuracy as returned, a rational
    direction,      \* run: which println of lines 100-110 ran
    confidence      \* run: the value printed with it, a rational

vars == <<pc, nfiles, fileIdx, status, stock_vec, training, indices,
          training_set, test_set, table, daily_returns, price_paths,
          predicted, run, num_inc, num_dec, avg_acc, num_tests, num_correct,
          raw_result, result, accuracy, direction, confidence>>

\* --------------------------------------------------------------- stock.rs
Tomorrow == {"Increase", "Decrease", "Predict"}

Stock_new(date, close, tomorrow) ==
    [date |-> date, close |-> close, tomorrow |-> tomorrow]

get_label(stock) ==
    CASE stock.tomorrow = "Increase" -> 1
      [] stock.tomorrow = "Decrease" -> 0
      [] stock.tomorrow = "Predict" -> -1

\* Not in src/stock.rs; lib.rs calls it. From the spec: the record's close.
get_price(stock) == stock.close

set_tomorrow(stock, tomorrow) == [stock EXCEPT !.tomorrow = tomorrow]

\* ---------------------------------------------------------------- helpers
Range(s) == {s[i] : i \in 1..Len(s)}

SeqsUpTo(S, lo, hi) == UNION {[1..n -> S] : n \in lo..hi}

\* indices.shuffle(&mut rand::thread_rng()): every permutation of 0..n
Shuffles(n) == {p \in [1..n -> 1..n] : \A i, j \in 1..n : p[i] = p[j] => i = j}

\* --------------------------------------------------------- calculations.rs
\* The targets of the rows add_row puts in the table, one per stock.
construct_table(stocks) == [i \in 1..Len(stocks) |-> get_label(stocks[i])]

\* (training * (stocks.len() as f32)) as usize: the cast truncates toward
\* zero and saturates, so a negative product gives 0.
training_index(n, num, den) == IF num * n <= 0 THEN 0 ELSE (num * n) \div den

\* split_data with the shuffle's outcome given. indices[0..training_index]
\* panics when training_index > indices.len().
split_data_overlap(stocks, num, den, shuffled) ==
    LET n == Len(stocks)
        ti == training_index(n, num, den)
    IN  IF ti > n
        THEN [panicked |-> TRUE, training_set |-> <<>>, test_set |-> <<>>]
        ELSE [panicked |-> FALSE,
              training_set |-> [k \in 1..ti |-> stocks[shuffled[k]]],
              test_set |-> [k \in 1..(n - ti) |-> stocks[shuffled[k]]]]
split_data(stocks, num, den, shuffled) ==
    LET n == Len(stocks)
        ti == training_index(n, num, den)
    IN  IF ti > n
        THEN [panicked |-> TRUE, training_set |-> <<>>, test_set |-> <<>>]
        ELSE [panicked |-> FALSE,
              training_set |-> [k \in 1..ti |-> stocks[shuffled[k]]],
              test_set |-> [k \in 1..(n - ti) |-> stocks[shuffled[ti + k]]]]

\* run_forest, lines 61-62: the last record is taken off before the split.
\* A caller guarantees Len(stocks) >= 1 (run panics earlier otherwise).
forest_dataset_all(stocks) == stocks
forest_dataset(stocks) == SubSeq(stocks, 1, Len(stocks) - 1)

\* RandomForestClassifier::predict of the randomforest crate: a leaf holds a
\* target of the rows it was fitted on, so the answer is one of the table's
\* targets. Which one is the library's and the bootstrap's choice.
predict(tbl) == Range(tbl)

\* run_forest, lines 83-98: accuracy, the switch below 0.5, the result.
\* accuracy < 0.5 with accuracy = num_correct / n_tests.
score_le(n_correct, n_tests, raw) ==
    LET switch_flag == 2 * n_correct <= n_tests
    IN  [result |-> IF switch_flag THEN (IF raw = 1 THEN 0 ELSE 1) ELSE raw,
         accuracy |-> IF switch_flag THEN <<n_tests - n_correct, n_tests>>
                                     ELSE <<n_correct, n_tests>>]
score(n_correct, n_tests, raw) ==
    LET switch_flag == 2 * n_correct < n_tests
    IN  [result |-> IF switch_flag THEN (IF raw = 1 THEN 0 ELSE 1) ELSE raw,
         accuracy |-> IF switch_flag THEN <<n_tests - n_correct, n_tests>>
                                     ELSE <<n_correct, n_tests>>]

\* calculate_daily_returns: days rows of trials factors exp(drift + std * z),
\* z drawn from Normal(0, 1). drift and std come from calculate_drift, whose
\* get_return is not in src/stock.rs; every positive factor is possible
\* whenever std > 0.
calculate_daily_returns == [1..Days -> [1..Trials -> Factors]]

\* calculate_price_paths, lines 170-186, with the matrix of factors given.
RECURSIVE price_rows(_, _, _)
price_rows(first_day, returns, i) ==
    IF i = 1
    THEN <<first_day>>
    ELSE LET prev == price_rows(first_day, returns, i - 1)
         IN  Append(prev, [j \in 1..Len(returns[1]) |->
                              prev[i - 1][j] * returns[i][j]])

calculate_price_paths_first(stocks, returns) ==
    price_rows([j \in 1..Len(returns[1]) |-> get_price(stocks[1])],
               returns, Len(returns))
calculate_price_paths(stocks, returns) ==
    price_rows([j \in 1..Len(returns[1]) |-> get_price(stocks[Len(stocks)])],
               returns, Len(returns))

\* ------------------------------------------------------------------ lib.rs
\* A data line of a file: its fields parse, or one of them does not.
Lines == [valid : {TRUE}, close : Prices] \cup {[valid |-> FALSE, close |-> 0]}
Contents == SeqsUpTo(Lines, 0, MaxRecords)

\* lines 40-62: one Stock per data line, all with Tomorrow::Predict.
parse_lines(content) ==
    [i \in 1..Len(content) |-> Stock_new(i, content[i].close, "Predict")]

\* lines 64-71: the labelling pass. get_price is not changed by set_tomorrow,
\* so the in-place loop is this map. Needs Len(sv) >= 1.
label_pass_strict(sv) ==
    [i \in 1..Len(sv) |->
        IF i < Len(sv)
        THEN set_tomorrow(sv[i], IF get_price(sv[i]) < get_price(sv[i + 1])
                                 THEN "Increase" ELSE "Decrease")
        ELSE sv[i]]
label_pass(sv) ==
    [i \in 1..Len(sv) |->
        IF i < Len(sv)
        THEN set_tomorrow(sv[i], IF get_price(sv[i]) <= get_price(sv[i + 1])
                                 THEN "Increase" ELSE "Decrease")
        ELSE sv[i]]

\* statrs mean of a row, as <<sum, count>>.
RECURSIVE row_sum(_, _)
row_sum(row, k) == IF k = 0 THEN 0 ELSE row_sum(row, k - 1) + row[k]
mean(row) == <<row_sum(row, Len(row)), Len(row)>>

\* avg_acc += accuracy on rationals.
rat_add(a, b) == IF a[2] = b[2] THEN <<a[1] + b[1], a[2]>>
                 ELSE <<a[1] * b[2] + b[1] * a[2], a[2] * b[2]>>

\* lines 100-110: which println runs, and the value it prints.
report_direction_strict(inc, dec) == IF inc > dec THEN "Up" ELSE "Down"
report_direction(inc, dec) == IF inc >= dec THEN "Up" ELSE "Down"

report_confidence_100(acc) == <<acc[1] * 100, acc[2]>>
report_confidence(acc) == <<acc[1] * ReportScale, acc[2]>>

\* ------------------------------------------------------------------ state
NoRat == <<0, 1>>

splitVars == <<training, indices, training_set>>
simVars == <<daily_returns, price_paths>>
forestVars == <<test_set, table, num_tests, num_correct, raw_result, result, accuracy>>
loopVars == <<run, num_inc, num_dec, avg_acc>>
reportVars == <<direction, confidence>>
fileVars == <<nfiles, fileIdx, status>>

\* Locals that do not exist (yet, or any more) at this point of the program.
NoSplit == training = NoRat /\ indices = <<>> /\ training_set = <<>>
NoSim == daily_returns = <<>> /\ price_paths = <<>>
NoForest ==
    /\ test_set = <<>> /\ table = <<>>
    /\ num_tests = 0 /\ num_correct = 0
    /\ raw_result = -1 /\ result = -1 /\ accuracy = NoRat
NoLoop == run = 0 /\ num_inc = 0 /\ num_dec = 0 /\ avg_acc = NoRat
NoReport == direction = "none" /\ confidence = NoRat
\* The same locals going out of scope, or being declared anew.
DropForest ==
    /\ test_set' = <<>> /\ table' = <<>>
    /\ num_tests' = 0 /\ num_correct' = 0
    /\ raw_result' = -1 /\ result' = -1 /\ accuracy' = NoRat
DropLoop == run' = 0 /\ num_inc' = 0 /\ num_dec' = 0 /\ avg_acc' = NoRat
DropReport == direction' = "none" /\ confidence' = NoRat
NoFiles == nfiles = 1 /\ fileIdx = 1 /\ status = <<"opened">>

\* ------------------------------------------------------- run(), lib.rs 31
Init ==
    /\ pc = "loop"
    /\ nfiles \in 1..MaxFiles
    /\ fileIdx = 0
    /\ status = [f \in 1..nfiles |-> "pending"]
    /\ stock_vec = <<>>
    /\ predicted = NoRat
    /\ NoSplit /\ NoSim /\ NoForest /\ NoLoop /\ NoReport

\* lines 32-34: open_file fails; eprintln, and the loop goes on.
OpenError ==
    /\ pc = "loop"
    /\ fileIdx < nfiles
    /\ fileIdx' = fileIdx + 1
    /\ status' = [status EXCEPT ![fileIdx + 1] = "open_error"]
    /\ UNCHANGED <<pc, nfiles, stock_vec, predicted, splitVars, simVars,
                   forestVars, loopVars, reportVars>>

\* lines 35-62: the file opens and its data lines are parsed; parse().unwrap()
\* panics on the first field that does not parse.
OpenParse ==
    /\ pc = "loop"
    /\ fileIdx < nfiles
    /\ \E content \in Contents :
        /\ fileIdx' = fileIdx + 1
        /\ status' = [status EXCEPT ![fileIdx + 1] = "opened"]
        /\ IF \E i \in 1..Len(content) : ~content[i].valid
           THEN pc' = "panic" /\ stock_vec' = <<>>
           ELSE pc' = "label" /\ stock_vec' = parse_lines(content)
    /\ UNCHANGED <<nfiles, predicted, splitVars, simVars, forestVars,
                   loopVars, reportVars>>

\* lines 64-76: length - 1 underflows on an empty stock_vec (a panic in a
\* debug build; in a release build the wrapped range indexes stock_vec[0] of
\* an empty vector, a panic too). The returns of lines 73-76 only feed
\* calculate_drift.
Label ==
    /\ pc = "label"
    /\ IF Len(stock_vec) = 0
       THEN pc' = "panic" /\ UNCHANGED stock_vec
       ELSE pc' = "montecarlo" /\ stock_vec' = label_pass(stock_vec)
    /\ UNCHANGED <<fileVars, predicted, splitVars, simVars, forestVars,
                   loopVars, reportVars>>

\* lines 78-82: the Monte Carlo price, the mean of the final row, is printed.
MonteCarlo ==
    /\ pc = "montecarlo"
    /\ \E returns \in calculate_daily_returns :
        LET paths == calculate_price_paths(stock_vec, returns)
        IN  predicted' = mean(paths[Len(paths)])
    /\ status' = [status EXCEPT ![fileIdx] = "priced"]
    /\ pc' = "counters"
    /\ UNCHANGED <<nfiles, fileIdx, stock_vec, splitVars, simVars, forestVars,
                   loopVars, reportVars>>

\* lines 84-86: the counters of the ten runs. predicted is not read after
\* the println of line 82.
Counters ==
    /\ pc = "counters"
    /\ DropLoop
    /\ predicted' = NoRat
    /\ pc' = "forest"
    /\ UNCHANGED <<fileVars, stock_vec, splitVars, simVars, forestVars,
                   reportVars>>

\* line 89, run_forest lines 61-66: the split and the training table.
ForestSplit ==
    /\ pc = "forest"
    /\ run < NumRuns
    /\ LET dataset == forest_dataset(stock_vec)
       IN  \E shuffled \in Shuffles(Len(dataset)) :
             LET sp == split_data(dataset, TrainNum, TrainDen, shuffled)
             IN  /\ pc' = IF sp.panicked THEN "panic" ELSE "fit"
                 /\ table' = construct_table(sp.training_set)
                 /\ test_set' = sp.test_set
    /\ num_tests' = 0 /\ num_correct' = 0
    /\ raw_result' = -1 /\ result' = -1 /\ accuracy' = NoRat
    /\ UNCHANGED <<fileVars, stock_vec, predicted, splitVars, simVars,
                   loopVars, reportVars>>

\* run_forest lines 68-98 and lib.rs lines 91-97. build() of an empty table
\* is Err(EmptyTable), and unwrap() panics. Otherwise the classifier answers
\* for every test record and for ultimo; the tally follows the return.
ForestFit ==
    /\ pc = "fit"
    /\ IF table = <<>>
       THEN /\ pc' = "panic"
            /\ UNCHANGED <<forestVars, loopVars>>
       ELSE \E answers \in [1..Len(test_set) -> predict(table)],
               raw \in predict(table) :
             LET n_correct == Cardinality({k \in 1..Len(test_set) :
                                  answers[k] = get_label(test_set[k])})
                 out == score(n_correct, Len(test_set), raw)
             IN  /\ num_tests' = Len(test_set)
                 /\ num_correct' = n_correct
                 /\ raw_result' = raw
                 /\ result' = out.result
                 /\ accuracy' = out.accuracy
                 /\ num_inc' = IF out.result = 1 THEN num_inc + 1 ELSE num_inc
                 /\ num_dec' = IF out.result = 1 THEN num_dec ELSE num_dec + 1
                 /\ avg_acc' = rat_add(avg_acc, out.accuracy)
                 /\ run' = run + 1
                 /\ test_set' = <<>>
                 /\ table' = <<>>
                 /\ pc' = "forest"
    /\ UNCHANGED <<fileVars, stock_vec, predicted, splitVars, simVars,
                   reportVars>>

\* lines 100-110: the verdict and the accuracy are printed.
Report ==
    /\ pc = "forest"
    /\ run = NumRuns
    /\ direction' = report_direction(num_inc, num_dec)
    /\ confidence' = report_confidence(avg_acc)
    /\ status' = [status EXCEPT ![fileIdx] = "reported"]
    /\ pc' = "reported"
    /\ UNCHANGED <<nfiles, fileIdx, stock_vec, predicted, splitVars, simVars,
                   forestVars, loopVars>>

\* lines 111-113: the body of the for loop ends and its locals are dropped.
EndFile ==
    /\ pc = "reported"
    /\ pc' = "loop"
    /\ stock_vec' = <<>>
    /\ predicted' = NoRat
    /\ DropForest /\ DropLoop /\ DropReport
    /\ UNCHANGED <<fileVars, splitVars, simVars>>

\* line 115: Ok(()).
Finish ==
    /\ pc = "loop"
    /\ fileIdx = nfiles
    /\ pc' = "done"
    /\ UNCHANGED <<fileVars, stock_vec, predicted, splitVars, simVars,
                   forestVars, loopVars, reportVars>>

Next ==
    \/ OpenError
    \/ OpenParse
    \/ Label
    \/ MonteCarlo
    \/ Counters
    \/ ForestSplit
    \/ ForestFit
    \/ Report
    \/ EndFile
    \/ Finish

Spec == Init /\ [][Next]_vars

\* ------------------------------------------- split_data applied on its own
SplitFractions == {<<num, den>> : num \in -1..(MaxDen + 1), den \in 1..MaxDen}

SplitInit ==
    /\ pc = "split_call"
    /\ \E n \in 0..MaxSplit :
         stock_vec = [i \in 1..n |-> Stock_new(i, 0, "Increase")]
    /\ training \in SplitFractions
    /\ indices = <<>> /\ training_set = <<>>
    /\ predicted = NoRat
    /\ NoFiles /\ NoSim /\ NoForest /\ NoLoop /\ NoReport

SplitCall ==
    /\ pc = "split_call"
    /\ \E shuffled \in Shuffles(Len(stock_vec)) :
         LET sp == split_data(stock_vec, training[1], training[2], shuffled)
         IN  /\ indices' = shuffled
             /\ pc' = IF sp.panicked THEN "panic" ELSE "split_done"
             /\ training_set' = sp.training_set
             /\ test_set' = sp.test_set
    /\ UNCHANGED <<fileVars, stock_vec, training, table, simVars, predicted,
                   loopVars, num_tests, num_correct, raw_result, result,
                   accuracy, reportVars>>

SplitNext == SplitCall

SpecSplit == SplitInit /\ [][SplitNext]_vars

\* ---------------------------------- calculate_price_paths applied on its own
SimInit ==
    /\ pc = "sim_call"
    /\ \E content \in SeqsUpTo([valid : {TRUE}, close : Prices], 1, MaxSimRecords) :
         stock_vec = label_pass(parse_lines(content))
    /\ predicted = NoRat
    /\ NoFiles /\ NoSplit /\ NoSim /\ NoForest /\ NoLoop /\ NoReport

SimCall ==
    /\ pc = "sim_call"
    /\ \E returns \in calculate_daily_returns :
         LET paths == calculate_price_paths(stock_vec, returns)
         IN  /\ daily_returns' = returns
             /\ price_paths' = paths
             /\ predicted' = mean(paths[Len(paths)])
    /\ pc' = "sim_done"
    /\ UNCHANGED <<fileVars, stock_vec, splitVars, forestVars, loopVars,
                   reportVars>>

SimNext == SimCall

SpecSim == SimInit /\ [][SimNext]_vars

\* ----------------- the ten runs of lines 84-110 on series too long to shuffle
\* A series of 10 * t - 7 records gives run_forest a dataset of 10 * t - 8, a
\* training table of 9 * t - 8 rows and a test set of t records. Its records
\* stand for any records of such a series: the split draws the labels of the
\* test records and the targets in the table instead of a permutation.
Labelled == {Stock_new(0, 0, t) : t \in {"Increase", "Decrease"}}

ScoreInit ==
    /\ pc = "forest"
    /\ \E t \in 1..MaxTests :
         stock_vec = [i \in 1..(10 * t - 7) |-> Stock_new(0, 0, "Predict")]
    /\ predicted = NoRat
    /\ NoFiles /\ NoSplit /\ NoSim /\ NoForest /\ NoLoop /\ NoReport

ScoreSplit ==
    /\ pc = "forest"
    /\ run < NumRuns
    /\ LET m == Len(forest_dataset(stock_vec))
           ti == training_index(m, TrainNum, TrainDen)
       IN  /\ test_set' \in [1..(m - ti) -> Labelled]
           /\ table' \in {<<0>>, <<1>>, <<0, 1>>}
    /\ pc' = "fit"
    /\ num_tests' = 0 /\ num_correct' = 0
    /\ raw_result' = -1 /\ result' = -1 /\ accuracy' = NoRat
    /\ UNCHANGED <<fileVars, stock_vec, predicted, splitVars, simVars,
                   loopVars, reportVars>>

ScoreNext ==
    \/ ScoreSplit
    \/ ForestFit
    \/ Report
    \/ EndFile

SpecScore == ScoreInit /\ [][ScoreNext]_vars

\* ------------------------------------------------------------- properties
Occurrences(s, x) == Cardinality({k \in 1..Len(s) : s[k] = x})

ValidFraction == 0 < training[1] /\ training[1] < training[2]

SplitReturned == pc \in {"split_done", "panic"}

\* C1: for a non-empty input of n records and a fraction strictly between 0
\* and 1, split_data returns floor(fraction * n) records as train and the
\* other n - floor(fraction * n) as test, and every input record (records
\* carry their index as date) is in exactly one of the two, exactly once,
\* whatever the shuffle gave.
C1_SplitPartition ==
    (SplitReturned /\ ValidFraction /\ Len(stock_vec) >= 1) =>
        LET n == Len(stock_vec)
            k == (training[1] * n) \div training[2]
        IN  /\ pc = "split_done"
            /\ Len(training_set) = k
            /\ Len(test_set) = n - k
            /\ Len(training_set) + Len(test_set) = n
            /\ \A i \in 1..n :
                 Occurrences(training_set \o test_set, stock_vec[i]) = 1
            /\ Range(training_set) \cap Range(test_set) = {}

C1_Witness ==
    /\ pc = "split_done" /\ ValidFraction
    /\ Len(stock_vec) = 4 /\ Len(training_set) = 2 /\ Len(test_set) = 2
    /\ indices[1] = 3 /\ indices[4] = 1

\* C2: a fraction outside the open interval (0, 1) makes the splitter fail
\* with an error: it neither returns a train/test pair nor aborts on an
\* out-of-range slice. (On a non-empty input, where no other error applies.)
C2_InvalidFractionRejected ==
    (~ValidFraction /\ Len(stock_vec) >= 1) => ~SplitReturned

Labelled_pcs == {"montecarlo", "counters", "forest", "fit", "reported"}

\* C3: after the labelling pass over n >= 1 records, every record but the
\* last is Increase (1) if its close is <= the next record's close and
\* Decrease (0) otherwise, and the last record is Predict (-1).
C3_Labels ==
    pc \in Labelled_pcs =>
        /\ Len(stock_vec) >= 1
        /\ \A i \in 1..Len(stock_vec) :
             IF i < Len(stock_vec)
             THEN IF stock_vec[i].close <= stock_vec[i + 1].close
                  THEN stock_vec[i].tomorrow = "Increase"
                       /\ get_label(stock_vec[i]) = 1
                  ELSE stock_vec[i].tomorrow = "Decrease"
                       /\ get_label(stock_vec[i]) = 0
             ELSE stock_vec[i].tomorrow = "Predict"
                  /\ get_label(stock_vec[i]) = -1

C3_Witness ==
    /\ pc = "montecarlo"
    /\ Len(stock_vec) = 3
    /\ stock_vec[1].close = stock_vec[2].close
    /\ stock_vec[2].close > stock_vec[3].close
    /\ stock_vec[1].tomorrow = "Increase"
    /\ stock_vec[2].tomorrow = "Decrease"

\* C4: no record with the label -1 is a row of the training table or a
\* scored test record, and the label run_forest returns is 0 or 1, switched
\* or not.
C4_NoSentinel ==
    /\ pc = "fit" =>
         /\ \A k \in 1..Len(table) : table[k] \in {0, 1}
         /\ \A k \in 1..Len(test_set) : get_label(test_set[k]) \in {0, 1}
    /\ (pc = "forest" /\ run > 0) => result \in {0, 1}

C4_Witness ==
    /\ pc = "forest" /\ run > 0
    /\ 2 * num_correct < num_tests
    /\ result = 0 /\ raw_result = 1

\* C5: a run returns (1 - predicted label, 1 - a) when its measured accuracy
\* a is below 0.5 and (predicted label, a) otherwise, so the accuracy it
\* returns is in [0.5, 1].
C5_SwitchTogether ==
    num_tests > 0 =>
        /\ 2 * num_correct < num_tests =>
             /\ result = 1 - raw_result
             /\ accuracy = <<num_tests - num_correct, num_tests>>
        /\ 2 * num_correct >= num_tests =>
             /\ result = raw_result
             /\ accuracy = <<num_correct, num_tests>>
        /\ 2 * accuracy[1] >= accuracy[2]
        /\ accuracy[1] <= accuracy[2]

C5_Witness ==
    /\ num_tests = 3 /\ num_correct = 1
    /\ accuracy = <<2, 3>> /\ raw_result = 0 /\ result = 1

\* C6: the pipeline runs exactly 10 times per file, every run casts one
\* vote, and the direction printed is Up exactly when the Up votes are at
\* least the Down votes.
C6_TenVotes ==
    /\ pc \in {"forest", "fit"} => (num_inc + num_dec = run /\ run <= 10)
    /\ direction # "none" =>
         /\ run = 10
         /\ num_inc + num_dec = 10
         /\ direction \in {"Up", "Down"}
         /\ direction = "Up" <=> num_inc >= num_dec

C6_Witness == direction = "Up" /\ num_inc = 5 /\ num_dec = 5

\* The value printed is 100 * avg_acc / 10 and lies between 50 and 100.
C7_Printed ==
    direction # "none" =>
        /\ confidence[1] * avg_acc[2] * 10 = 100 * avg_acc[1] * confidence[2]
        /\ 50 * confidence[2] <= confidence[1]
        /\ confidence[1] <= 100 * confidence[2]

\* Each run adds the accuracy it returned to avg_acc.
C7_Summed ==
    run' = run + 1 =>
        avg_acc'[1] * avg_acc[2] * accuracy'[2]
            = (avg_acc[1] * accuracy'[2] + accuracy'[1] * avg_acc[2]) * avg_acc'[2]

\* C7: the confidence printed is 100 * (the sum of the 10 returned
\* accuracies) / 10, and so lies between 50 and 100.
C7_Confidence == [](C7_Printed) /\ [][C7_Summed]_vars

C7_Witness ==
    /\ direction # "none"
    /\ 50 * confidence[2] < confidence[1]
    /\ confidence[1] < 100 * confidence[2]

LastPrice == stock_vec[Len(stock_vec)].close

\* C8: the matrix calculate_price_paths returns has days rows of trials
\* entries, its first row is the last record's price in every column, and
\* with a positive last price and positive factors every entry is positive.
C8_Shape ==
    pc = "sim_done" =>
        /\ Len(price_paths) = Days
        /\ \A i \in 1..Len(price_paths) : Len(price_paths[i]) = Trials
        /\ \A j \in 1..Trials : price_paths[1][j] = LastPrice
        /\ (/\ LastPrice > 0
            /\ \A i \in 1..Days : \A j \in 1..Trials : daily_returns[i][j] > 0)
           => \A i \in 1..Days : \A j \in 1..Trials : price_paths[i][j] > 0

C8_Witness ==
    /\ pc = "sim_done"
    /\ Len(stock_vec) = 2
    /\ stock_vec[1].close = 0 /\ LastPrice = 1
    /\ price_paths[Days][1] = 4 /\ price_paths[Days][2] = 1

RECURSIVE column_product(_, _, _)
column_product(returns, j, i) ==
    IF i = 0 THEN 1 ELSE column_product(returns, j, i - 1) * returns[i][j]

\* C9: the final row is the last price times exactly days factors per
\* trial: every factor drawn is applied to one step of its trial's path.
C9_AllFactorsApplied ==
    pc = "sim_done" =>
        \A j \in 1..Trials :
            price_paths[Days][j] = LastPrice * column_product(daily_returns, j, Days)

\* C10: a file that cannot be processed does not abort the run: when the
\* process ends, in whatever way, every file of the list has been taken up.
C10_FailureDoesNotAbort ==
    pc \in {"done", "panic"} => \A f \in 1..nfiles : status[f] # "pending"

====
